---- MODULE Spec2Model ----
(***************************************************************************)
(* Model of bevy_render's PipelineCompiler                                 *)
(* (crates/bevy_render/src/pipeline/pipeline_compiler.rs): the shader and  *)
(* pipeline variant caches, the per-frame assignment table and the frame   *)
(* driver that walks the renderables.                                      *)
(***************************************************************************)
EXTENDS Integers, Sequences, FiniteSets, TLC

(* ------------------------------ bounds --------------------------------- *)
\* renderables ever spawned
MaxEntities == 2
\* frame passes run
MaxFrames == 2

(* --------------------------- value domains ----------------------------- *)
\* Option<Handle>::None
NoHandle == 0
\* a handle that resolves in no asset store
DanglingHandle == NoHandle - 1

DefNames == {"A", "B"}
Topologies == {"TriangleList", "LineList"}
\* PrimitiveTopology::default()
DefaultTopology == "TriangleList"
BindingNames == {"Object"}

VARIABLES
    shader_source_to_compiled,    \* Handle<Shader> -> Seq of [spec, handle]
    pipeline_source_to_compiled,  \* Handle<PipelineDescriptor> -> Seq of [spec, handle]
    shader_storage,               \* AssetStorage<Shader>
    pipeline_storage,             \* AssetStorage<PipelineDescriptor>
    assignments,                  \* PipelineAssignments.assignments
    world,                        \* entity -> Renderable
    compile_calls,                \* probe: invocations of the compile service
    pc,                           \* "idle" | "pass" | "panicked"
    pending,                      \* renderables the running pass has not visited yet
    processed,                    \* renderables the current/last pass visited, in order
    frame,                        \* completed or started passes
    next_id,                      \* next RenderResourceAssignmentsId
    error,                        \* the failure that unwound the pass
    plog,                         \* probe: pipeline resolutions of the running pass
    slog,                         \* probe: compile_shader calls of the running pass
    discarded,                    \* probe: ids in the table the running pass reset
    yielded                       \* what the last query helper call yielded

vars == <<shader_source_to_compiled, pipeline_source_to_compiled, shader_storage,
          pipeline_storage, assignments, world, compile_calls, pc, pending,
          processed, frame, next_id, error, plog, slog, discarded, yielded>>

(* ------------------------------ helpers -------------------------------- *)
Max(S) == CHOOSE x \in S : \A y \in S : y <= x

\* HashMap::insert
Put(f, k, v) == [x \in (DOMAIN f) \cup {k} |-> IF x = k THEN v ELSE f[x]]

EmptyMap == [x \in {} |-> 0]

\* AssetStorage::add: a fresh handle for the stored value
NewHandle(storage) == IF DOMAIN storage = {} THEN 1 ELSE Max(DOMAIN storage) + 1

\* Iterator::find over a cache entry list: index of the first entry whose
\* specialization equals spec, 0 when there is none
FindEntry(entries, spec) ==
    IF \E i \in 1..Len(entries) : entries[i].spec = spec
    THEN CHOOSE i \in 1..Len(entries) :
            /\ entries[i].spec = spec
            /\ \A j \in 1..(i - 1) : entries[j].spec # spec
    ELSE 0

\* #[derive(PartialEq)] ShaderSpecialization
ShaderSpecialization(defs) == [shader_defs |-> defs]

\* #[derive(PartialEq)] PipelineSpecialization
PipelineSpecialization(defs, topology) ==
    [shader_specialization |-> ShaderSpecialization(defs),
     primitive_topology |-> topology]

\* the specialization carried by a renderable's RenderResourceAssignments
SpecializationOf(r) == PipelineSpecialization(r.shader_defs, r.primitive_topology)

(* ---------------------------- source assets ---------------------------- *)
\* a shader asset: its source form, the uniform bindings it declares, whether
\* its binary reflects, the defines its source does not compile with, and for
\* a compiled variant the source handle and defines it was compiled from
GlslShader(bad) ==
    [source |-> "Glsl", bindings |-> BindingNames, reflects |-> TRUE,
     bad_defs |-> bad, origin |-> NoHandle, macros |-> {}]

SpirvShader(ok) ==
    [source |-> "Spirv", bindings |-> BindingNames, reflects |-> ok,
     bad_defs |-> {}, origin |-> NoHandle, macros |-> {}]

\* the shaders loaded before the first frame
SourceShaders ==
    <<GlslShader({}), GlslShader({}), SpirvShader(TRUE), GlslShader({"A"}),
      SpirvShader(FALSE)>>

IsSourceShader(h) == h \in 1..Len(SourceShaders)

Descriptor(name, vertex, fragment) ==
    [name |-> name, vertex |-> vertex, fragment |-> fragment,
     layout |-> <<>>, primitive_topology |-> DefaultTopology]

\* the pipelines loaded before the first frame
SourcePipelines ==
    <<Descriptor("forward", 1, 2),
      Descriptor("depth", 1, NoHandle),
      Descriptor("ui", 3, 2),
      Descriptor("unlit", 4, NoHandle),
      Descriptor("corrupt", 5, NoHandle),
      Descriptor("broken", 2, 5)>>

IsSourcePipeline(h) == h \in 1..Len(SourcePipelines)

(* -------------------------- external services -------------------------- *)
\* Shader::get_spirv_shader fails on source it cannot compile
CompileFails(shader, defs) == shader.bad_defs \cap defs # {}

\* Shader::get_spirv_shader: the binary compiled with the given defines
get_spirv_shader(shader_handle, shader, defs) ==
    [source |-> "Spirv", bindings |-> shader.bindings, reflects |-> TRUE,
     bad_defs |-> {}, origin |-> shader_handle, macros |-> defs]

(* --------------------------- compiler state ---------------------------- *)
\* The state one call of PipelineCompiler::update_shader_assignments borrows
\* mutably, as one record, so that the calls compose.
Borrowed ==
    [shader_source_to_compiled |-> shader_source_to_compiled,
     pipeline_source_to_compiled |-> pipeline_source_to_compiled,
     shader_storage |-> shader_storage,
     pipeline_storage |-> pipeline_storage,
     assignments |-> assignments,
     compile_calls |-> compile_calls,
     error |-> "None",
     plog |-> plog,
     slog |-> slog]

\* a compiler that goes on after a failure
FailedNever(st) == FALSE

Failed(st) == st.error # "None"

\* a lookup that takes an entry whose defines include the requested ones
FindShaderBySubset(compiled_shaders, shader_specialization) ==
    IF \E i \in 1..Len(compiled_shaders) :
            shader_specialization.shader_defs \subseteq
                compiled_shaders[i].spec.shader_defs
    THEN CHOOSE i \in 1..Len(compiled_shaders) :
            shader_specialization.shader_defs \subseteq
                compiled_shaders[i].spec.shader_defs
    ELSE 0

\* a lookup that finds nothing
FindShaderNone(compiled_shaders, shader_specialization) == 0

\* lines 118-123: the cached shader entry with an equal specialization
FindShader(compiled_shaders, shader_specialization) ==
    FindEntry(compiled_shaders, shader_specialization)

\* a lookup that looks at the most recent entry only
FindPipelineLast(compiled_pipelines, pipeline_specialization) ==
    IF /\ compiled_pipelines # <<>>
       /\ compiled_pipelines[Len(compiled_pipelines)].spec = pipeline_specialization
    THEN Len(compiled_pipelines)
    ELSE 0

\* a lookup that compares the shader specialization and not the topology
FindPipelineIgnoreTopology(compiled_pipelines, pipeline_specialization) ==
    IF \E i \in 1..Len(compiled_pipelines) :
            compiled_pipelines[i].spec.shader_specialization =
                pipeline_specialization.shader_specialization
    THEN CHOOSE i \in 1..Len(compiled_pipelines) :
            compiled_pipelines[i].spec.shader_specialization =
                pipeline_specialization.shader_specialization
    ELSE 0

\* lines 202-209: the cached pipeline entry with an equal specialization
FindPipeline(compiled_pipelines, pipeline_specialization) ==
    FindEntry(compiled_pipelines, pipeline_specialization)

\* an insert that does not keep the list the key has
EnsureShaderKeyReset(st, shader_handle) ==
    [st EXCEPT !.shader_source_to_compiled = Put(@, shader_handle, <<>>)]

\* lines 106-109: entry(handle).or_insert_with(Vec::new)
EnsureShaderKey(st, shader_handle) ==
    IF shader_handle \in DOMAIN st.shader_source_to_compiled
    THEN st
    ELSE [st EXCEPT !.shader_source_to_compiled = Put(@, shader_handle, <<>>)]

\* an insert that does not look for the key first
EnsurePipelineKeyReset(st, pipeline_handle) ==
    [st EXCEPT !.pipeline_source_to_compiled = Put(@, pipeline_handle, <<>>)]

\* lines 197-200: insert an empty entry list for an unseen source pipeline
EnsurePipelineKey(st, pipeline_handle) ==
    IF pipeline_handle \in DOMAIN st.pipeline_source_to_compiled
    THEN st
    ELSE [st EXCEPT !.pipeline_source_to_compiled = Put(@, pipeline_handle, <<>>)]

\* probe on compile_shader: what was asked, what came back, whether the
\* compile service ran
LogShader(st, shader_handle, shader_specialization, handle, invoked) ==
    [st EXCEPT !.slog = Append(@, [shader |-> shader_handle,
                                   spec |-> shader_specialization,
                                   handle |-> handle,
                                   invoked |-> invoked])]

\* lines 128-137: compile on a shader cache miss
CompileMiss(st, shader_handle, shader_specialization) ==
    LET shader == st.shader_storage[shader_handle]
        defs == shader_specialization.shader_defs
        called == [st EXCEPT !.compile_calls = @ + 1]
        compiled_handle == NewHandle(st.shader_storage)
    IN  IF CompileFails(shader, defs)
        THEN [st |-> [LogShader(called, shader_handle, shader_specialization,
                                NoHandle, TRUE) EXCEPT !.error = "CompileError"],
              handle |-> NoHandle]
        ELSE [st |-> LogShader(
                        [called EXCEPT
                            !.shader_storage =
                                Put(@, compiled_handle, get_spirv_shader(shader_handle, shader, defs)),
                            !.shader_source_to_compiled[shader_handle] =
                                Append(@, [spec |-> shader_specialization,
                                           handle |-> compiled_handle])],
                        shader_handle, shader_specialization, compiled_handle, TRUE),
              handle |-> compiled_handle]

\* a check that takes no source for a binary
IsSpirvNever(shader) == FALSE

\* line 114: the source is already SPIR-V
IsSpirv(shader) == shader.source = "Spirv"

\* PipelineCompiler::compile_shader
compile_shader(st, shader_handle, shader_specialization) ==
    LET st1 == EnsureShaderKey(st, shader_handle)
        compiled_shaders == st1.shader_source_to_compiled[shader_handle]
        i == FindShader(compiled_shaders, shader_specialization)
    IN  IF shader_handle \notin DOMAIN st1.shader_storage
        THEN [st |-> [st1 EXCEPT !.error = "NotFound"], handle |-> NoHandle]
        ELSE IF IsSpirv(st1.shader_storage[shader_handle])
        THEN [st |-> LogShader(st1, shader_handle, shader_specialization,
                               shader_handle, FALSE),
              handle |-> shader_handle]
        ELSE IF i # 0
        THEN [st |-> LogShader(st1, shader_handle, shader_specialization,
                               compiled_shaders[i].handle, FALSE),
              handle |-> compiled_shaders[i].handle]
        ELSE CompileMiss(st1, shader_handle, shader_specialization)

\* a reflection that leaves every binding static
BindingForStatic(name, rra) == [name |-> name, dynamic |-> FALSE]

\* lines 75-95: a uniform binding is dynamic when the resource the draw call
\* binds under its name is a dynamic buffer
BindingFor(name, rra) ==
    [name |-> name,
     dynamic |-> IF name \in rra.bound THEN rra.is_dynamic ELSE FALSE]

\* PipelineCompiler::reflect_layout
reflect_layout(storage, pipeline_descriptor, rra) ==
    LET vertex == pipeline_descriptor.vertex
        fragment == pipeline_descriptor.fragment
        stages == IF fragment = NoHandle THEN {vertex} ELSE {vertex, fragment}
    IN  IF \E h \in stages : h \notin DOMAIN storage
        THEN [error |-> "NotFound", descriptor |-> pipeline_descriptor]
        ELSE IF \E h \in stages : ~storage[h].reflects
        THEN [error |-> "ReflectionError", descriptor |-> pipeline_descriptor]
        ELSE [error |-> "None",
              descriptor |->
                [pipeline_descriptor EXCEPT !.layout =
                    <<{BindingFor(n, rra) :
                        n \in UNION {storage[h].bindings : h \in stages}}>>]]

\* a copy that starts from a default descriptor
CloneDefault(pipeline_descriptor) == [pipeline_descriptor EXCEPT !.name = "default"]

\* line 149: pipeline_descriptor.clone()
Clone(pipeline_descriptor) == pipeline_descriptor

\* PipelineCompiler::compile_pipeline
compile_pipeline(st, pipeline_descriptor, rra) ==
    LET shader_specialization == SpecializationOf(rra).shader_specialization
        v == compile_shader(st, pipeline_descriptor.vertex, shader_specialization)
        f == IF Failed(v.st) \/ pipeline_descriptor.fragment = NoHandle
             THEN [st |-> v.st, handle |-> NoHandle]
             ELSE compile_shader(v.st, pipeline_descriptor.fragment,
                                 shader_specialization)
        staged == [Clone(pipeline_descriptor) EXCEPT !.vertex = v.handle,
                                                     !.fragment = f.handle]
        r == IF Failed(f.st)
             THEN [error |-> f.st.error, descriptor |-> staged]
             ELSE reflect_layout(f.st.shader_storage, staged, rra)
    IN  [st |-> [f.st EXCEPT !.error = r.error],
         descriptor |-> [r.descriptor EXCEPT
                            !.primitive_topology = rra.primitive_topology]]

\* an insert that replaces the handle's list instead of pushing on it
AssignReplacing(st, final_handle, id) ==
    [st EXCEPT !.assignments = Put(@, final_handle, <<id>>)]

\* an insert that keeps a list free of duplicates
AssignOnce(st, final_handle, id) ==
    [st EXCEPT !.assignments =
        IF final_handle \in DOMAIN @
        THEN IF \E i \in 1..Len(@[final_handle]) : @[final_handle][i] = id
             THEN @
             ELSE [@ EXCEPT ![final_handle] = Append(@, id)]
        ELSE Put(@, final_handle, <<id>>)]

\* lines 234-244: push the draw call's id on the handle's assignment list
Assign(st, final_handle, id) ==
    [st EXCEPT !.assignments =
        IF final_handle \in DOMAIN @
        THEN [@ EXCEPT ![final_handle] = Append(@, id)]
        ELSE Put(@, final_handle, <<id>>)]

\* probe on the pipeline resolution of lines 202-231
LogPipeline(st, id, pipeline_handle, spec, handle, hit) ==
    [st EXCEPT !.plog = Append(@, [id |-> id, pipeline |-> pipeline_handle,
                                   spec |-> spec, handle |-> handle,
                                   hit |-> hit])]

\* a miss branch that stores what it has when the compilation fails
PipelineMissStoring(st, pipeline_handle, rra) ==
    IF pipeline_handle \notin DOMAIN st.pipeline_storage
    THEN [st EXCEPT !.error = "NotFound"]
    ELSE LET c == compile_pipeline(st, st.pipeline_storage[pipeline_handle], rra)
             compiled_pipeline_handle == NewHandle(c.st.pipeline_storage)
             stored == [c.st EXCEPT
                            !.pipeline_storage =
                                Put(@, compiled_pipeline_handle, c.descriptor),
                            !.pipeline_source_to_compiled[pipeline_handle] =
                                Append(@, [spec |-> SpecializationOf(rra),
                                           handle |-> compiled_pipeline_handle])]
         IN  IF Failed(c.st)
             THEN stored
             ELSE Assign(LogPipeline(stored, rra.id, pipeline_handle,
                                     SpecializationOf(rra),
                                     compiled_pipeline_handle, FALSE),
                         compiled_pipeline_handle, rra.id)

\* lines 211-231: compile on a pipeline cache miss
PipelineMiss(st, pipeline_handle, rra) ==
    IF pipeline_handle \notin DOMAIN st.pipeline_storage
    THEN [st EXCEPT !.error = "NotFound"]
    ELSE LET c == compile_pipeline(st, st.pipeline_storage[pipeline_handle], rra)
             compiled_pipeline_handle == NewHandle(c.st.pipeline_storage)
         IN  IF Failed(c.st)
             THEN c.st
             ELSE Assign(
                    LogPipeline(
                        [c.st EXCEPT
                            !.pipeline_storage =
                                Put(@, compiled_pipeline_handle, c.descriptor),
                            !.pipeline_source_to_compiled[pipeline_handle] =
                                Append(@, [spec |-> SpecializationOf(rra),
                                           handle |-> compiled_pipeline_handle])],
                        rra.id, pipeline_handle, SpecializationOf(rra),
                        compiled_pipeline_handle, FALSE),
                    compiled_pipeline_handle, rra.id)

\* lines 197-244: the loop body for one source pipeline of the draw call
ResolvePipeline(st, pipeline_handle, rra) ==
    LET st1 == EnsurePipelineKey(st, pipeline_handle)
        entries == st1.pipeline_source_to_compiled[pipeline_handle]
        i == FindPipeline(entries, SpecializationOf(rra))
    IN  IF i # 0
        THEN Assign(LogPipeline(st1, rra.id, pipeline_handle,
                                SpecializationOf(rra), entries[i].handle, TRUE),
                    entries[i].handle, rra.id)
        ELSE PipelineMiss(st1, pipeline_handle, rra)

\* PipelineCompiler::update_shader_assignments
RECURSIVE update_shader_assignments(_, _, _)
update_shader_assignments(st, pipelines, rra) ==
    IF pipelines = <<>> \/ Failed(st)
    THEN st
    ELSE update_shader_assignments(ResolvePipeline(st, Head(pipelines), rra),
                                   Tail(pipelines), rra)

(* --------------------------- query helpers ----------------------------- *)
\* a helper that yields nothing, instead of None, for an unknown pipeline
IterCompiledPipelinesOrEmpty(cache, pipeline_handle) ==
    [some |-> TRUE,
     handles |-> IF pipeline_handle \in DOMAIN cache
                 THEN [j \in 1..Len(cache[pipeline_handle]) |->
                            cache[pipeline_handle][j].handle]
                 ELSE <<>>]

\* PipelineCompiler::iter_compiled_pipelines: None, or the handles the
\* iterator yields
iter_compiled_pipelines(cache, pipeline_handle) ==
    IF pipeline_handle \in DOMAIN cache
    THEN [some |-> TRUE,
          handles |-> [j \in 1..Len(cache[pipeline_handle]) |->
                            cache[pipeline_handle][j].handle]]
    ELSE [some |-> FALSE, handles |-> <<>>]

\* HashMap::values: the keys in one of the orders the map may iterate in
ValuesOrders(cache) ==
    {order \in [1..Cardinality(DOMAIN cache) -> DOMAIN cache] :
        \A i, j \in DOMAIN order : i # j => order[i] # order[j]}

\* PipelineCompiler::iter_all_compiled_pipelines: the handles the flattened
\* iterator yields when the map iterates in the given order
RECURSIVE iter_all_compiled_pipelines(_, _)
iter_all_compiled_pipelines(cache, order) ==
    IF order = <<>>
    THEN <<>>
    ELSE [j \in 1..Len(cache[Head(order)]) |-> cache[Head(order)][j].handle]
            \o iter_all_compiled_pipelines(cache, Tail(order))

\* no query helper has been called since the last pass
NoQuery == [call |-> "none", pipeline_handle |-> NoHandle, some |-> FALSE,
            handles |-> <<>>]

(* ------------------------------- state --------------------------------- *)
SeqToMap(seq) == [h \in 1..Len(seq) |-> seq[h]]

\* PipelineCompiler::new, PipelineAssignments::new, and the asset stores
\* holding the authored shaders and pipelines
Init ==
    /\ shader_source_to_compiled = EmptyMap
    /\ pipeline_source_to_compiled = EmptyMap
    /\ shader_storage = SeqToMap(SourceShaders)
    /\ pipeline_storage = SeqToMap(SourcePipelines)
    /\ assignments = EmptyMap
    /\ world = EmptyMap
    /\ compile_calls = 0
    /\ pc = "idle"
    /\ pending = {}
    /\ processed = <<>>
    /\ frame = 0
    /\ next_id = 1
    /\ error = "None"
    /\ plog = <<>>
    /\ slog = <<>>
    /\ discarded = {}
    /\ yielded = NoQuery

compiler_vars == <<shader_source_to_compiled, pipeline_source_to_compiled,
                   shader_storage, pipeline_storage, assignments, compile_calls,
                   error, plog, slog>>
pass_vars == <<pc, pending, processed, frame, discarded>>

\* the draw-call ids recorded in an assignment table
AssignedIds(table) ==
    UNION {{table[h][i] : i \in 1..Len(table[h])} : h \in DOMAIN table}

(* ------------------------ client code, between frames ------------------ *)
\* a renderable with a fresh RenderResourceAssignments
NewRenderable(id, pipelines, topology) ==
    [is_instanced |-> FALSE, pipelines |-> pipelines, id |-> id,
     shader_defs |-> {}, primitive_topology |-> topology,
     bound |-> BindingNames, is_dynamic |-> FALSE]

Spawn(pipelines, topology) ==
    /\ pc = "idle"
    /\ next_id <= MaxEntities
    /\ world' = Put(world, next_id, NewRenderable(next_id, pipelines, topology))
    /\ next_id' = next_id + 1
    /\ UNCHANGED <<compiler_vars, pass_vars, yielded>>

Despawn(e) ==
    /\ pc = "idle"
    /\ e \in DOMAIN world
    /\ world' = [x \in (DOMAIN world) \ {e} |-> world[x]]
    /\ UNCHANGED <<compiler_vars, pass_vars, next_id, yielded>>

\* shader_defs.insert(def)
AddShaderDef(e, def) ==
    /\ pc = "idle"
    /\ e \in DOMAIN world
    /\ def \notin world[e].shader_defs
    /\ world' = [world EXCEPT ![e].shader_defs = @ \cup {def}]
    /\ UNCHANGED <<compiler_vars, pass_vars, next_id, yielded>>

SetInstanced(e, flag) ==
    /\ pc = "idle"
    /\ e \in DOMAIN world
    /\ world[e].is_instanced # flag
    /\ world' = [world EXCEPT ![e].is_instanced = flag]
    /\ UNCHANGED <<compiler_vars, pass_vars, next_id, yielded>>

\* the buffer bound by the draw call becomes (or stops being) dynamic
SetDynamic(e, flag) ==
    /\ pc = "idle"
    /\ e \in DOMAIN world
    /\ world[e].is_dynamic # flag
    /\ world' = [world EXCEPT ![e].is_dynamic = flag]
    /\ UNCHANGED <<compiler_vars, pass_vars, next_id, yielded>>

\* a client calls iter_compiled_pipelines and collects what it yields
QueryCompiled(pipeline_handle) ==
    /\ pc = "idle"
    /\ LET it == iter_compiled_pipelines(pipeline_source_to_compiled, pipeline_handle)
       IN  yielded' = [call |-> "iter_compiled_pipelines",
                       pipeline_handle |-> pipeline_handle,
                       some |-> it.some, handles |-> it.handles]
    /\ UNCHANGED <<compiler_vars, pass_vars, world, next_id>>

\* a client calls iter_all_compiled_pipelines and collects what it yields
QueryAll ==
    /\ pc = "idle"
    /\ \E order \in ValuesOrders(pipeline_source_to_compiled) :
        yielded' = [call |-> "iter_all_compiled_pipelines",
                    pipeline_handle |-> NoHandle, some |-> TRUE,
                    handles |-> iter_all_compiled_pipelines(
                                    pipeline_source_to_compiled, order)]
    /\ UNCHANGED <<compiler_vars, pass_vars, world, next_id>>

(* ----------------------------- frame pass ------------------------------ *)
\* a pass that keeps the table of the frame before
KeepAssignments(table) == table

\* line 299: the table is replaced by an empty one
ResetAssignments(table) == EmptyMap

\* a loop that skips nothing
SkipsNothing(renderable) == FALSE

\* line 304: instanced renderables are skipped
Skips(renderable) == renderable.is_instanced

\* a loop that leaves the defines in place
KeepShaderDefs(renderable) == renderable

\* lines 319-324: shader_defs.clear()
ClearShaderDefs(renderable) == [renderable EXCEPT !.shader_defs = {}]

\* update_shader_assignments(world, resources), lines 288-299: borrow the
\* resources (the compiler mutably, so no iterator over it is alive) and reset
\* the assignment table
BeginFrame ==
    /\ pc = "idle"
    /\ frame < MaxFrames
    /\ pc' = "pass"
    /\ frame' = frame + 1
    /\ assignments' = ResetAssignments(assignments)
    /\ discarded' = AssignedIds(assignments)
    /\ pending' = DOMAIN world
    /\ processed' = <<>>
    /\ plog' = <<>>
    /\ slog' = <<>>
    /\ yielded' = NoQuery
    /\ UNCHANGED <<shader_source_to_compiled, pipeline_source_to_compiled,
                   shader_storage, pipeline_storage, compile_calls, error,
                   world, next_id>>

\* what one iteration of the loop of lines 302-325 leaves behind
Commit(st) ==
    /\ shader_source_to_compiled' = st.shader_source_to_compiled
    /\ pipeline_source_to_compiled' = st.pipeline_source_to_compiled
    /\ shader_storage' = st.shader_storage
    /\ pipeline_storage' = st.pipeline_storage
    /\ assignments' = st.assignments
    /\ compile_calls' = st.compile_calls
    /\ error' = st.error
    /\ plog' = st.plog
    /\ slog' = st.slog

\* lines 302-325: one iteration of the loop over the renderables
VisitRenderable(e) ==
    /\ pc = "pass"
    /\ e \in pending
    /\ pending' = pending \ {e}
    /\ processed' = Append(processed, e)
    /\ IF Skips(world[e])
       THEN /\ Commit(Borrowed)
            /\ UNCHANGED <<world, pc>>
       ELSE LET st == update_shader_assignments(Borrowed, world[e].pipelines, world[e])
            IN  /\ Commit(st)
                /\ IF Failed(st)
                   THEN /\ pc' = "panicked"
                        /\ UNCHANGED world
                   ELSE /\ world' = [world EXCEPT ![e] = ClearShaderDefs(@)]
                        /\ UNCHANGED pc
    /\ UNCHANGED <<frame, next_id, discarded, yielded>>

\* line 326: the loop is over and the borrows are released (the probes are
\* reset with them)
EndFrame ==
    /\ pc = "pass"
    /\ pending = {}
    /\ pc' = "idle"
    /\ processed' = <<>>
    /\ plog' = <<>>
    /\ slog' = <<>>
    /\ discarded' = {}
    /\ UNCHANGED <<shader_source_to_compiled, pipeline_source_to_compiled,
                   shader_storage, pipeline_storage, assignments, compile_calls,
                   error, world, pending, frame, next_id, yielded>>

\* the caller of the frame pass catches the unwinding panic; the borrows of
\* lines 288-296 were released by the unwind
CatchUnwind ==
    /\ pc = "panicked"
    /\ pc' = "idle"
    /\ pending' = {}
    /\ processed' = <<>>
    /\ plog' = <<>>
    /\ slog' = <<>>
    /\ discarded' = {}
    /\ error' = "None"
    /\ UNCHANGED <<shader_source_to_compiled, pipeline_source_to_compiled,
                   shader_storage, pipeline_storage, assignments, compile_calls,
                   world, frame, next_id, yielded>>

\* update_shader_assignments(world, resources), one step at a time
FramePass ==
    \/ BeginFrame
    \/ \E e \in pending : VisitRenderable(e)
    \/ EndFrame

(* --------------------------- specifications ---------------------------- *)
\* Each specification is the frame pass driven by one kind of client code.

\* the define a client requests in most scenes
CommonDefs == {"A"}

\* Clients whose draw calls share shaders and pipelines, list a pipeline
\* twice, or use a pipeline with a precompiled vertex stage.
SharedLists == {<<1>>, <<1, 2, 1>>, <<3>>}

Next ==
    \/ \E pipelines \in SharedLists : Spawn(pipelines, DefaultTopology)
    \/ \E e \in DOMAIN world, def \in CommonDefs : AddShaderDef(e, def)
    \/ FramePass

Spec == Init /\ [][Next]_vars

\* Clients that vary the primitive topology of the draw calls of one pipeline.
NextTopology ==
    \/ \E topology \in Topologies : Spawn(<<1>>, topology)
    \/ \E e \in DOMAIN world, def \in CommonDefs : AddShaderDef(e, def)
    \/ FramePass

SpecTopology == Init /\ [][NextTopology]_vars

\* Clients that request every combination of the defines for one pipeline.
NextDefines ==
    \/ Spawn(<<1>>, DefaultTopology)
    \/ \E e \in DOMAIN world, def \in DefNames : AddShaderDef(e, def)
    \/ FramePass

SpecDefines == Init /\ [][NextDefines]_vars

\* Clients that vary both the defines and the topology.
NextVariants ==
    \/ \E topology \in Topologies : Spawn(<<1>>, topology)
    \/ \E e \in DOMAIN world, def \in DefNames : AddShaderDef(e, def)
    \/ FramePass

SpecVariants == Init /\ [][NextVariants]_vars

\* Clients that remove renderables and switch them to instanced drawing.
NextInstancing ==
    \/ Spawn(<<1>>, DefaultTopology)
    \/ \E e \in DOMAIN world : Despawn(e)
    \/ \E e \in DOMAIN world, def \in CommonDefs : AddShaderDef(e, def)
    \/ \E e \in DOMAIN world, flag \in BOOLEAN : SetInstanced(e, flag)
    \/ FramePass

SpecInstancing == Init /\ [][NextInstancing]_vars

\* Clients whose renderables list pipelines that fail to resolve: a shader
\* that does not compile with the define, a malformed binary, a dangling
\* pipeline handle.
FailureLists == {<<1>>, <<4>>, <<5>>, <<DanglingHandle>>}

NextFailure ==
    \/ \E pipelines \in FailureLists : Spawn(pipelines, DefaultTopology)
    \/ \E e \in DOMAIN world, def \in CommonDefs : AddShaderDef(e, def)
    \/ FramePass

SpecFailure == Init /\ [][NextFailure]_vars

\* Clients whose bound buffers change between dynamic and static.
NextDynamic ==
    \/ Spawn(<<1>>, DefaultTopology)
    \/ \E e \in DOMAIN world, def \in CommonDefs : AddShaderDef(e, def)
    \/ \E e \in DOMAIN world, flag \in BOOLEAN : SetDynamic(e, flag)
    \/ FramePass

SpecDynamic == Init /\ [][NextDynamic]_vars

\* Clients that draw with a pipeline that has a fragment stage and one that
\* has none, with either topology.
NextStages ==
    \/ \E topology \in Topologies : Spawn(<<1, 2>>, topology)
    \/ \E e \in DOMAIN world, def \in CommonDefs : AddShaderDef(e, def)
    \/ FramePass

SpecStages == Init /\ [][NextStages]_vars

\* Clients that query the compiled variants between the frames.
QueriedPipelines == {1, 2, 3}

NextQueries ==
    \/ Spawn(<<1, 2>>, DefaultTopology)
    \/ \E e \in DOMAIN world, def \in CommonDefs : AddShaderDef(e, def)
    \/ \E pipeline_handle \in QueriedPipelines : QueryCompiled(pipeline_handle)
    \/ QueryAll
    \/ FramePass

SpecQueries == Init /\ [][NextQueries]_vars

\* Clients that go on after a pass has panicked, with renderables whose
\* pipelines resolve, do not reflect, or are missing.
RetryLists == {<<2>>, <<6>>, <<DanglingHandle>>}

NextRetry ==
    \/ \E pipelines \in RetryLists : Spawn(pipelines, DefaultTopology)
    \/ \E e \in DOMAIN world, def \in CommonDefs : AddShaderDef(e, def)
    \/ FramePass
    \/ CatchUnwind

SpecRetry == Init /\ [][NextRetry]_vars

\* Clients whose pipelines share a vertex shader, next to one whose shader
\* does not compile with the define.
CompileLists == {<<1, 2>>, <<4>>}

NextCompile ==
    \/ \E pipelines \in CompileLists : Spawn(pipelines, DefaultTopology)
    \/ \E e \in DOMAIN world, def \in CommonDefs : AddShaderDef(e, def)
    \/ FramePass

SpecCompile == Init /\ [][NextCompile]_vars

\* Clients whose renderables list a pipeline twice and switch to instanced
\* drawing and back.
NextTable ==
    \/ Spawn(<<1, 2, 1>>, DefaultTopology)
    \/ \E e \in DOMAIN world, def \in CommonDefs : AddShaderDef(e, def)
    \/ \E e \in DOMAIN world, flag \in BOOLEAN : SetInstanced(e, flag)
    \/ FramePass

SpecTable == Init /\ [][NextTable]_vars

(* ------------------------------ properties ----------------------------- *)
PassComplete == pc = "pass" /\ pending = {}

\* the handles a cache holds for a source handle and a specialization
CachedHandles(cache, source, spec) ==
    IF source \in DOMAIN cache
    THEN {cache[source][j].handle :
            j \in {j \in 1..Len(cache[source]) : cache[source][j].spec = spec}}
    ELSE {}

\* the number of entries a cache holds for a source handle and a specialization
CachedCount(cache, source, spec) ==
    IF source \in DOMAIN cache
    THEN Cardinality({j \in 1..Len(cache[source]) : cache[source][j].spec = spec})
    ELSE 0

DefsOf(spec) == spec.shader_specialization.shader_defs

\* C1: for every source pipeline, no two entries of its list in
\* pipeline_source_to_compiled have equal (shader_defs, primitive_topology)
\* specializations, after any sequence of frame passes.
C1_OneEntryPerSpecialization ==
    \A p \in DOMAIN pipeline_source_to_compiled :
        \A i, j \in 1..Len(pipeline_source_to_compiled[p]) :
            i # j => pipeline_source_to_compiled[p][i].spec #
                     pipeline_source_to_compiled[p][j].spec

\* a source pipeline with three variants, one of them just found again
C1_Witness ==
    \E k \in 1..Len(plog) :
        /\ plog[k].hit
        /\ Len(pipeline_source_to_compiled[plog[k].pipeline]) >= 3

\* C2: every resolution of a (source pipeline, specialization) pair that is
\* already cached returns the cached handle, and after every resolution the
\* cache holds exactly one entry for the pair, with the returned handle.
C2_Idempotent ==
    [][\A k \in (Len(plog) + 1)..Len(plog') :
        LET r == plog'[k]
            before == CachedHandles(pipeline_source_to_compiled, r.pipeline, r.spec)
        IN  /\ before # {} => before = {r.handle}
            /\ CachedCount(pipeline_source_to_compiled', r.pipeline, r.spec) = 1
            /\ CachedHandles(pipeline_source_to_compiled', r.pipeline, r.spec)
                    = {r.handle}]_vars

\* the second frame finds the variant of a re-requested define again, with
\* another variant of the same pipeline cached next to it
C2_Witness ==
    /\ frame = 2
    /\ \E k \in 1..Len(plog) :
        /\ plog[k].hit
        /\ DefsOf(plog[k].spec) = {"A"}
        /\ Len(pipeline_source_to_compiled[plog[k].pipeline]) >= 2

\* C3: for one source pipeline, entries with different specializations hold
\* different compiled handles, and every resolution returns a handle cached
\* under exactly the requested specialization (a later request with the first
\* specialization gets the first handle, not the second).
C3_DistinctVariants ==
    /\ \A p \in DOMAIN pipeline_source_to_compiled :
        \A i, j \in 1..Len(pipeline_source_to_compiled[p]) :
            pipeline_source_to_compiled[p][i].spec #
                pipeline_source_to_compiled[p][j].spec
            => pipeline_source_to_compiled[p][i].handle #
                    pipeline_source_to_compiled[p][j].handle
    /\ \A k \in 1..Len(plog) :
        LET entries == pipeline_source_to_compiled[plog[k].pipeline]
        IN  {entries[j].spec :
                j \in {j \in 1..Len(entries) : entries[j].handle = plog[k].handle}}
            = {plog[k].spec}

\* a first variant with a define, a second that differs from it in the
\* topology only, a third that differs from the second in the defines only,
\* and a later request of the first specialization that found the first handle
C3_Witness ==
    \E k \in 1..Len(plog) :
        LET entries == pipeline_source_to_compiled[plog[k].pipeline]
        IN  /\ plog[k].hit
            /\ Len(entries) >= 3
            /\ DefsOf(entries[1].spec) = {"A"}
            /\ DefsOf(entries[2].spec) = DefsOf(entries[1].spec)
            /\ entries[2].spec.primitive_topology # entries[1].spec.primitive_topology
            /\ DefsOf(entries[3].spec) # DefsOf(entries[2].spec)
            /\ entries[3].spec.primitive_topology = entries[2].spec.primitive_topology
            /\ plog[k].handle = entries[1].handle
            /\ plog[k].handle \notin {entries[2].handle, entries[3].handle}

\* C4: for a source shader that is not a binary, the entries of
\* shader_source_to_compiled hold pairwise different define sets and pairwise
\* different handles; a compile_shader call that succeeds returns the handle of
\* the one entry with the requested define set; it invokes the compile service
\* exactly when no such entry existed before the call.
C4_ShaderCacheSound ==
    [][/\ \A s \in DOMAIN shader_source_to_compiled' :
            \A i, j \in 1..Len(shader_source_to_compiled'[s]) :
                i # j =>
                    /\ shader_source_to_compiled'[s][i].spec #
                            shader_source_to_compiled'[s][j].spec
                    /\ shader_source_to_compiled'[s][i].handle #
                            shader_source_to_compiled'[s][j].handle
       /\ \A k \in (Len(slog) + 1)..Len(slog') :
            LET r == slog'[k]
                before == CachedHandles(shader_source_to_compiled, r.shader, r.spec)
                earlier == \E n \in (Len(slog) + 1)..(k - 1) :
                                /\ slog'[n].shader = r.shader
                                /\ slog'[n].spec = r.spec
            IN  (shader_storage[r.shader].source = "Glsl" /\ r.handle # NoHandle)
                => /\ CachedHandles(shader_source_to_compiled', r.shader, r.spec)
                        = {r.handle}
                   /\ before # {} => before = {r.handle}
                   /\ r.invoked <=> (before = {} /\ ~earlier)
       /\ compile_calls' - compile_calls =
            Cardinality({k \in (Len(slog) + 1)..Len(slog') : slog'[k].invoked})
      ]_vars

\* a source shader compiled with two define sets, and the first handle
\* returned again without a call of the compile service
C4_Witness ==
    \E k \in 1..Len(slog) :
        LET entries == shader_source_to_compiled[slog[k].shader]
        IN  /\ shader_storage[slog[k].shader].source = "Glsl"
            /\ ~slog[k].invoked
            /\ Len(entries) >= 2
            /\ slog[k].handle = entries[1].handle
            /\ entries[1].spec.shader_defs # entries[2].spec.shader_defs
            /\ entries[1].handle # entries[2].handle
            /\ frame = 2

\* C5: compile_shader returns a SPIR-V source shader's own handle for every
\* specialization without invoking the compile service; its entry list stays
\* empty and no asset of the shader store was compiled from it.
C5_PassThrough ==
    /\ \A k \in 1..Len(slog) :
        shader_storage[slog[k].shader].source = "Spirv"
        => slog[k].handle = slog[k].shader /\ ~slog[k].invoked
    /\ \A s \in DOMAIN shader_source_to_compiled \cap DOMAIN shader_storage :
        shader_storage[s].source = "Spirv" => shader_source_to_compiled[s] = <<>>
    /\ \A h \in DOMAIN shader_storage :
        shader_storage[h].origin # NoHandle
        => shader_storage[shader_storage[h].origin].source # "Spirv"

\* the binary vertex shader was resolved with the define in the second frame
\* and with no define before
C5_Witness ==
    /\ frame = 2
    /\ \E k \in 1..Len(slog) :
        /\ shader_storage[slog[k].shader].source = "Spirv"
        /\ slog[k].spec.shader_defs = {"A"}
        /\ slog[k].handle = slog[k].shader
    /\ \E p \in DOMAIN pipeline_source_to_compiled :
        \E j \in 1..Len(pipeline_source_to_compiled[p]) :
            /\ DefsOf(pipeline_source_to_compiled[p][j].spec) = {}
            /\ shader_storage[pipeline_storage[
                    pipeline_source_to_compiled[p][j].handle].vertex].origin = NoHandle

\* C6: while and after a pass runs, the assignment table holds only ids of
\* renderables the pass has visited, that exist and are not instanced; ids of
\* the table of the frame before do not survive the reset.
C6_FrameIsolation ==
    pc = "pass" =>
        AssignedIds(assignments) \subseteq
            {processed[i] : i \in 1..Len(processed)}
                \cap {e \in DOMAIN world : ~world[e].is_instanced}

\* a pass is complete, its table is not empty, and a renderable that was in
\* the table of the frame before has been removed
C6_Witness ==
    /\ PassComplete
    /\ assignments # EmptyMap
    /\ \E id \in discarded : id \notin DOMAIN world

\* C7 as claimed: when a pass completes, the define set of every renderable
\* the loop visited is empty, the instanced ones it skipped included.
C7_AllVisitedCleared ==
    PassComplete =>
        \A i \in 1..Len(processed) : world[processed[i]].shader_defs = {}

\* C7 as amended: when a pass completes, the define set of every renderable
\* the loop visited and did not skip as instanced is empty.
C7_TransientReset ==
    PassComplete =>
        \A i \in 1..Len(processed) :
            ~world[processed[i]].is_instanced
            => world[processed[i]].shader_defs = {}

\* a renderable entered the pass with a define and left it with none
C7_Witness ==
    /\ PassComplete
    /\ \E k \in 1..Len(plog) :
        /\ DefsOf(plog[k].spec) = {"A"}
        /\ world[plog[k].id].shader_defs = {}

\* C8: the loop iteration of an instanced renderable changes neither cache,
\* neither asset store, nor the table, and its id is in no assignment list.
C8_InstancedSkipped ==
    [][\A e \in pending \ pending' :
        world[e].is_instanced =>
            /\ UNCHANGED <<shader_source_to_compiled, pipeline_source_to_compiled,
                           shader_storage, pipeline_storage, assignments,
                           compile_calls>>
            /\ world[e].id \notin AssignedIds(assignments')]_vars

\* the loop has just visited an instanced renderable whose specialization no
\* cache entry of its pipeline has
C8_Witness ==
    /\ pc = "pass"
    /\ processed # <<>>
    /\ LET e == processed[Len(processed)]
       IN  /\ world[e].is_instanced
           /\ world[e].shader_defs = {"A"}
           /\ \A p \in DOMAIN pipeline_source_to_compiled :
                CachedCount(pipeline_source_to_compiled, p,
                            SpecializationOf(world[e])) = 0
           /\ assignments # EmptyMap

\* the ids of the resolutions of a pass that returned a handle, in order
IdsResolvedTo(log, handle) ==
    LET Returned(r) == r.handle = handle
        hits == SelectSeq(log, Returned)
    IN  [i \in 1..Len(hits) |-> hits[i].id]

\* C9: during a pass, the assignment list of a compiled handle is the ids of
\* the draw calls resolved to it, in the order they were processed; draw calls
\* with equal specializations of one source pipeline get one handle, and only
\* the first of them compiles a variant.
C9_SharedAssignment ==
    pc = "pass" =>
        /\ \A h \in DOMAIN assignments :
            assignments[h] = IdsResolvedTo(plog, h)
        /\ \A k \in 1..Len(plog) : plog[k].handle \in DOMAIN assignments
        /\ \A k1, k2 \in 1..Len(plog) :
            (k1 < k2 /\ plog[k1].pipeline = plog[k2].pipeline
                     /\ plog[k1].spec = plog[k2].spec)
            => plog[k1].handle = plog[k2].handle /\ plog[k2].hit

\* two draw calls with the define were resolved to one handle of one source
\* pipeline, which lists the first before the second
C9_Witness ==
    /\ PassComplete
    /\ \E k1, k2 \in 1..Len(plog) :
        /\ k1 < k2
        /\ plog[k1].id # plog[k2].id
        /\ plog[k1].pipeline = plog[k2].pipeline
        /\ plog[k1].spec = plog[k2].spec
        /\ DefsOf(plog[k1].spec) = {"A"}
        /\ ~plog[k1].hit
        /\ assignments[plog[k1].handle] = <<plog[k1].id, plog[k2].id>>

\* C10 as claimed: when the resolution of one renderable fails, every other
\* renderable of the frame that is not instanced and resolves without a
\* failure has its id in the table and an empty define set.
C10_FailureIsolation ==
    pc = "panicked" =>
        \A e \in DOMAIN world :
            (/\ e # processed[Len(processed)]
             /\ ~world[e].is_instanced
             /\ ~Failed(update_shader_assignments(Borrowed, world[e].pipelines,
                                                  world[e])))
            => /\ world[e].id \in AssignedIds(assignments)
               /\ world[e].shader_defs = {}

\* the renderable whose resolution unwound the pass
FailedRenderable == processed[Len(processed)]

\* the source pipeline whose resolution unwound the pass: the first of the
\* renderable's list that the pass has no resolution for
FailedPipeline ==
    LET e == FailedRenderable
        resolved == Cardinality({k \in 1..Len(plog) : plog[k].id = world[e].id})
    IN  world[e].pipelines[resolved + 1]

\* the assignment lists of the compiled variants of a source pipeline
AssignedUnder(source) ==
    IF source \in DOMAIN pipeline_source_to_compiled
    THEN UNION {{assignments[h][i] : i \in 1..Len(assignments[h])} :
                h \in {pipeline_source_to_compiled[source][j].handle :
                        j \in 1..Len(pipeline_source_to_compiled[source])}
                     \cap DOMAIN assignments}
    ELSE {}

\* a call of the compile service of the running pass failed
CompileFailed == \E k \in 1..Len(slog) : slog[k].invoked /\ slog[k].handle = NoHandle

\* C11: when the compile service fails for a draw call, the failure reaches
\* the caller of the frame pass as a CompileError, and the draw call's id is in
\* the assignment list of no compiled variant of the source pipeline that
\* failed, the variants cached in earlier frames included.
C11_CompileErrorDrops ==
    CompileFailed =>
        /\ pc = "panicked"
        /\ error = "CompileError"
        /\ world[FailedRenderable].id \notin AssignedUnder(FailedPipeline)

\* the compile failed for a source pipeline that has a variant from an earlier
\* frame, which another draw call of this frame was assigned to
C11_Witness ==
    /\ CompileFailed
    /\ frame = 2
    /\ FailedPipeline \in DOMAIN pipeline_source_to_compiled
    /\ pipeline_source_to_compiled[FailedPipeline] # <<>>
    /\ AssignedUnder(FailedPipeline) # {}

\* a compiled descriptor with the fields compile_pipeline overrides put back
\* to the source's
WithStagesOf(compiled, source) ==
    [compiled EXCEPT !.vertex = source.vertex,
                     !.fragment = source.fragment,
                     !.layout = source.layout,
                     !.primitive_topology = source.primitive_topology]

\* the handles compile_shader has for a source stage and a specialization: the
\* stage itself when it is a binary, its cached variant otherwise
CompiledStages(stage, shader_specialization) ==
    IF shader_storage[stage].source = "Spirv"
    THEN {stage}
    ELSE CachedHandles(shader_source_to_compiled, stage, shader_specialization)

\* C12: the descriptor stored for a cache entry equals its source descriptor
\* in every field but the stage handles, the layout and the topology; its
\* topology is the entry's specialization's, its layout is reflected, its
\* vertex stage is the source stage compiled with the entry's defines, it has
\* a fragment stage exactly when the source has one; and the descriptors
\* under the source handles are the authored ones.
C12_ValueCopy ==
    /\ \A p \in DOMAIN pipeline_source_to_compiled :
        \A j \in 1..Len(pipeline_source_to_compiled[p]) :
            LET entry == pipeline_source_to_compiled[p][j]
                source == pipeline_storage[p]
                compiled == pipeline_storage[entry.handle]
            IN  /\ entry.handle # p
                /\ WithStagesOf(compiled, source) = source
                /\ compiled.primitive_topology = entry.spec.primitive_topology
                /\ compiled.layout # <<>>
                /\ compiled.vertex \in
                        CompiledStages(source.vertex, entry.spec.shader_specialization)
                /\ (compiled.fragment = NoHandle) <=> (source.fragment = NoHandle)
                /\ source.fragment # NoHandle =>
                        compiled.fragment \in
                            CompiledStages(source.fragment,
                                           entry.spec.shader_specialization)
    /\ \A p \in 1..Len(SourcePipelines) : pipeline_storage[p] = SourcePipelines[p]

\* a pipeline without a fragment stage and one with a fragment stage were
\* compiled for a topology that is not the source's, with the define
C12_Witness ==
    /\ PassComplete
    /\ \E p, q \in DOMAIN pipeline_source_to_compiled :
        /\ pipeline_storage[p].fragment = NoHandle
        /\ pipeline_storage[q].fragment # NoHandle
        /\ \E j \in 1..Len(pipeline_source_to_compiled[p]),
              k \in 1..Len(pipeline_source_to_compiled[q]) :
            LET a == pipeline_source_to_compiled[p][j]
                b == pipeline_source_to_compiled[q][k]
            IN  /\ a.spec.primitive_topology # pipeline_storage[p].primitive_topology
                /\ pipeline_storage[a.handle].fragment = NoHandle
                /\ b.spec.primitive_topology # pipeline_storage[q].primitive_topology
                /\ DefsOf(b.spec) = {"A"}
                /\ pipeline_storage[b.handle].fragment \notin {NoHandle, pipeline_storage[q].fragment}

\* the positions of all entries of the pipeline cache
PipelineEntries ==
    UNION {{<<p, j>> : j \in 1..Len(pipeline_source_to_compiled[p])} :
            p \in DOMAIN pipeline_source_to_compiled}

\* C13: the keys of the pipeline cache are the source pipelines a frame pass
\* has looked up; a call of iter_compiled_pipelines yields None exactly for a
\* pipeline that is no key, and otherwise the handles of the pipeline's
\* entries in insertion order; a call of iter_all_compiled_pipelines yields
\* the handle of every entry of every source pipeline exactly once and nothing
\* else; neither call changes the caches, the stores or the table.
C13_QueriesExact ==
    [][/\ DOMAIN pipeline_source_to_compiled' =
            DOMAIN pipeline_source_to_compiled
                \cup {plog'[k].pipeline : k \in (Len(plog) + 1)..Len(plog')}
       /\ (yielded' # yielded /\ yielded'.call = "iter_compiled_pipelines") =>
            LET pipeline_handle == yielded'.pipeline_handle
                handles == yielded'.handles
            IN  /\ yielded'.some <=>
                        pipeline_handle \in DOMAIN pipeline_source_to_compiled
                /\ yielded'.some =>
                    /\ Len(handles) = Len(pipeline_source_to_compiled[pipeline_handle])
                    /\ \A j \in 1..Len(handles) :
                        handles[j] =
                            pipeline_source_to_compiled[pipeline_handle][j].handle
                /\ UNCHANGED <<shader_source_to_compiled, pipeline_source_to_compiled,
                               shader_storage, pipeline_storage, assignments>>
       /\ (yielded' # yielded /\ yielded'.call = "iter_all_compiled_pipelines") =>
            LET handles == yielded'.handles
            IN  /\ Len(handles) = Cardinality(PipelineEntries)
                /\ \A entry \in PipelineEntries :
                    Cardinality({i \in 1..Len(handles) :
                        handles[i] =
                            pipeline_source_to_compiled[entry[1]][entry[2]].handle}) = 1
                /\ UNCHANGED <<shader_source_to_compiled, pipeline_source_to_compiled,
                               shader_storage, pipeline_storage, assignments>>
      ]_vars

\* after two passes, a query of a source pipeline with two variants yielded
\* both in insertion order, while another source pipeline was never looked up
C13_Witness ==
    /\ frame = 2
    /\ yielded.call = "iter_compiled_pipelines"
    /\ yielded.some
    /\ Len(yielded.handles) = 2
    /\ yielded.handles[1] < yielded.handles[2]
    /\ assignments # EmptyMap
    /\ \E other \in QueriedPipelines : other \notin DOMAIN pipeline_source_to_compiled

\* all variants were yielded, those of the source pipeline looked up last first
C13_WitnessAll ==
    /\ yielded.call = "iter_all_compiled_pipelines"
    /\ Len(yielded.handles) = 4
    /\ yielded.handles[1] > yielded.handles[3]

\* every entry of a cache is an entry of the later cache, at its position
GrowsOnly(cache, later) ==
    \A source \in DOMAIN cache :
        /\ source \in DOMAIN later
        /\ Len(cache[source]) <= Len(later[source])
        /\ \A j \in 1..Len(cache[source]) : later[source][j] = cache[source][j]

\* C14: no step removes, moves or changes an entry of either cache: an entry,
\* once present, is present with its specialization, handle and position in
\* every later state, also when no renderable of a frame uses it.
C14_MonotoneCaches ==
    [][/\ GrowsOnly(shader_source_to_compiled, shader_source_to_compiled')
       /\ GrowsOnly(pipeline_source_to_compiled, pipeline_source_to_compiled')
      ]_vars

\* the second pass is complete and a variant compiled in the first frame,
\* with its shaders, is still cached although no draw call of this frame was
\* assigned to it
C14_Witness ==
    /\ PassComplete
    /\ frame = 2
    /\ \E p \in DOMAIN pipeline_source_to_compiled :
        /\ Len(pipeline_source_to_compiled[p]) >= 1
        /\ pipeline_source_to_compiled[p][1].handle \notin DOMAIN assignments
        /\ \A k \in 1..Len(plog) : ~plog[k].hit
        /\ LET spec == pipeline_source_to_compiled[p][1].spec.shader_specialization
               vertex == pipeline_storage[p].vertex
           IN  CachedHandles(shader_source_to_compiled, vertex, spec) # {}

\* the layout reflect_layout computes for a draw call that binds every name
LayoutFor(renderable) ==
    <<{[name |-> n, dynamic |-> renderable.is_dynamic] : n \in BindingNames}>>

\* C15: a descriptor of the pipeline store never changes once stored; a
\* resolution that misses stores a layout whose bindings have the dynamic flag
\* of the resources of the draw call that missed; a resolution that hits
\* returns the cached handle and leaves its layout as it was, whatever the
\* dynamic flag of the resolving draw call's resources is now.
C15_LayoutFrozen ==
    [][/\ \A h \in DOMAIN pipeline_storage :
            /\ h \in DOMAIN pipeline_storage'
            /\ pipeline_storage'[h] = pipeline_storage[h]
       /\ \A k \in (Len(plog) + 1)..Len(plog') :
            LET r == plog'[k]
            IN  IF r.hit
                THEN /\ r.handle \in DOMAIN pipeline_storage
                     /\ r.handle \in CachedHandles(pipeline_source_to_compiled,
                                                   r.pipeline, r.spec)
                     /\ pipeline_storage'[r.handle].layout =
                            pipeline_storage[r.handle].layout
                ELSE /\ r.handle \notin DOMAIN pipeline_storage
                     /\ pipeline_storage'[r.handle].layout = LayoutFor(world[r.id])
      ]_vars

\* in the second frame a draw call whose buffer is dynamic now was resolved to
\* a variant whose binding is static, and one whose buffer is static to a
\* variant whose binding is dynamic
C15_Witness ==
    /\ frame = 2
    /\ \E k1, k2 \in 1..Len(plog) :
        /\ plog[k1].hit
        /\ plog[k2].hit
        /\ world[plog[k1].id].is_dynamic
        /\ pipeline_storage[plog[k1].handle].layout = <<{[name |-> "Object", dynamic |-> FALSE]}>>
        /\ ~world[plog[k2].id].is_dynamic
        /\ pipeline_storage[plog[k2].handle].layout = <<{[name |-> "Object", dynamic |-> TRUE]}>>

\* the handles of all entries of the pipeline cache
CompiledPipelineHandles ==
    {pipeline_source_to_compiled[entry[1]][entry[2]].handle : entry \in PipelineEntries}

\* C16: when a pipeline compilation attempt fails in the reflection or on a
\* missing asset, the pipeline store holds no descriptor but the authored ones
\* and those of the cache entries, the source pipeline has no cache entry for
\* the draw call's specialization (so that the next lookup of the pair finds
\* none), and the draw call's id is in no assignment list of the source
\* pipeline's variants.
C16_NoPartialPipeline ==
    (pc = "panicked" /\ error \in {"ReflectionError", "NotFound"}) =>
        LET renderable == world[FailedRenderable]
        IN  /\ DOMAIN pipeline_storage =
                    (1..Len(SourcePipelines)) \cup CompiledPipelineHandles
            /\ CachedCount(pipeline_source_to_compiled, FailedPipeline,
                           SpecializationOf(renderable)) = 0
            /\ FindPipeline(pipeline_source_to_compiled[FailedPipeline],
                            SpecializationOf(renderable)) = 0
            /\ renderable.id \notin AssignedUnder(FailedPipeline)

\* the reflection failed in the second frame for a pipeline whose vertex stage
\* came from the shader cache: the pair was attempted in the first frame, and
\* the attempt of this frame missed again
C16_Witness ==
    /\ pc = "panicked"
    /\ error = "ReflectionError"
    /\ frame = 2
    /\ pipeline_source_to_compiled[FailedPipeline] = <<>>
    /\ \E k \in 1..Len(slog) :
        /\ slog[k].shader = pipeline_storage[FailedPipeline].vertex
        /\ shader_storage[slog[k].shader].source = "Glsl"
        /\ ~slog[k].invoked
        /\ slog[k].spec.shader_defs = {"A"}

\* C17: the loop iteration of a renderable that is not instanced resolves
\* every pipeline of its list, in order, with the specialization the
\* renderable entered the iteration with, to a variant cached under that
\* specialization, and then leaves it with the empty define set and its
\* topology; a define set changes in no other way than by this clear or by a
\* client's request between the frames, so that a renderable which requests
\* nothing again is resolved with the empty define set in the next frame.
C17_CleanBaseline ==
    [][/\ \A e \in pending \ pending' :
            (~world[e].is_instanced /\ pc' = "pass") =>
                /\ Len(plog') = Len(plog) + Len(world[e].pipelines)
                /\ \A k \in 1..Len(world[e].pipelines) :
                    LET r == plog'[Len(plog) + k]
                    IN  /\ r.id = world[e].id
                        /\ r.pipeline = world[e].pipelines[k]
                        /\ r.spec = SpecializationOf(world[e])
                        /\ r.handle \in
                                CachedHandles(pipeline_source_to_compiled',
                                              r.pipeline, SpecializationOf(world[e]))
                /\ SpecializationOf(world'[e]) =
                        PipelineSpecialization({}, world[e].primitive_topology)
       /\ \A e \in DOMAIN world \cap DOMAIN world' :
            world'[e].shader_defs # world[e].shader_defs =>
                \/ e \in pending \ pending'
                \/ pc = "idle" /\ world[e].shader_defs \subseteq world'[e].shader_defs
      ]_vars

\* the only renderable ever spawned, with a topology that is not the default,
\* was resolved in the second frame with no define for both pipelines of its
\* list, and not to the variants with the define that the first frame compiled
C17_Witness ==
    /\ PassComplete
    /\ frame = 2
    /\ next_id = 2
    /\ Len(plog) = 2
    /\ plog[1].pipeline # plog[2].pipeline
    /\ \A k \in 1..Len(plog) :
        LET entries == pipeline_source_to_compiled[plog[k].pipeline]
        IN  /\ DefsOf(plog[k].spec) = {}
            /\ plog[k].spec.primitive_topology # DefaultTopology
            /\ Len(entries) = 2
            /\ DefsOf(entries[1].spec) = {"A"}
            /\ entries[1].spec.primitive_topology = plog[k].spec.primitive_topology
            /\ plog[k].handle = entries[2].handle
            /\ entries[1].handle \notin DOMAIN assignments

\* the positions of all entries of the shader cache
ShaderEntries ==
    UNION {{<<s, j>> : j \in 1..Len(shader_source_to_compiled[s])} :
            s \in DOMAIN shader_source_to_compiled}

\* the shaders the compiler has added to the shader store
CompiledShaders == {h \in DOMAIN shader_storage : ~IsSourceShader(h)}

\* C18 as claimed: in every state the number of invocations of the compile
\* service equals the number of entries of the shader cache and the number of
\* shaders the compiler has added to the shader store.
C18_CallsEqualEntries ==
    /\ compile_calls = Cardinality(ShaderEntries)
    /\ compile_calls = Cardinality(CompiledShaders)

\* C18 as amended: every step invokes the compile service once for each entry
\* it adds to the shader cache and once more when it ends in a compile
\* failure, which adds none; the entries are as many as the shaders the
\* compiler has added to the store, each of them the variant of its source
\* with the entry's defines; the entries of one source shader have pairwise
\* different define sets, whatever number of pipelines and stages use it.
C18_CompileOncePerMiss ==
    [][/\ compile_calls' - compile_calls =
            (Cardinality(ShaderEntries') - Cardinality(ShaderEntries))
                + (IF error' = "CompileError" /\ pc' = "panicked" /\ pc = "pass"
                   THEN 1 ELSE 0)
       /\ Cardinality(ShaderEntries') = Cardinality(CompiledShaders')
       /\ \A entry \in ShaderEntries' :
            LET cached == shader_source_to_compiled'[entry[1]][entry[2]]
            IN  /\ cached.handle \in CompiledShaders'
                /\ shader_storage'[cached.handle].origin = entry[1]
                /\ shader_storage'[cached.handle].macros = cached.spec.shader_defs
                /\ \A j \in 1..Len(shader_source_to_compiled'[entry[1]]) :
                    j # entry[2] =>
                        shader_source_to_compiled'[entry[1]][j].spec # cached.spec
      ]_vars

\* the vertex shader two pipelines share has one variant per define set, both
\* pipelines have two variants, and the one invocation more than there are
\* entries is the one that has just failed
C18_Witness ==
    /\ pc = "panicked"
    /\ error = "CompileError"
    /\ {1, 2} \subseteq DOMAIN pipeline_source_to_compiled
    /\ Len(shader_source_to_compiled[1]) = 2
    /\ Len(pipeline_source_to_compiled[1]) = 2
    /\ Len(pipeline_source_to_compiled[2]) = 2
    /\ pipeline_storage[1].vertex = pipeline_storage[2].vertex
    /\ compile_calls = Cardinality(ShaderEntries) + 1
    /\ Cardinality(ShaderEntries) = 5

\* two specializations with equal define sets and different topologies
TopologyOnly(a, b) ==
    /\ a.shader_specialization = b.shader_specialization
    /\ a.primitive_topology # b.primitive_topology

\* C19: two entries of one source pipeline whose specializations differ in
\* the topology only hold different handles of descriptors with the same
\* vertex and the same fragment handle; and a step that resolves one pipeline
\* by a miss, for a pipeline that has an entry differing from the requested
\* specialization in the topology only, finds every stage in the shader cache:
\* it invokes the compile service for no stage and leaves the shader cache and
\* the shader store as they were.
C19_TopologyVariantSharesShaders ==
    [][/\ \A p \in DOMAIN pipeline_source_to_compiled' :
            \A i, j \in 1..Len(pipeline_source_to_compiled'[p]) :
                LET a == pipeline_source_to_compiled'[p][i]
                    b == pipeline_source_to_compiled'[p][j]
                IN  TopologyOnly(a.spec, b.spec) =>
                        /\ a.handle # b.handle
                        /\ pipeline_storage'[a.handle].vertex =
                                pipeline_storage'[b.handle].vertex
                        /\ pipeline_storage'[a.handle].fragment =
                                pipeline_storage'[b.handle].fragment
       /\ (Len(plog') = Len(plog) + 1) =>
            LET r == plog'[Len(plog')]
                had == IF r.pipeline \in DOMAIN pipeline_source_to_compiled
                       THEN pipeline_source_to_compiled[r.pipeline]
                       ELSE <<>>
            IN  (\E j \in 1..Len(had) : TopologyOnly(had[j].spec, r.spec)) =>
                    /\ CachedHandles(pipeline_source_to_compiled, r.pipeline, r.spec)
                            = {} => ~r.hit
                    /\ \A k \in (Len(slog) + 1)..Len(slog') : ~slog'[k].invoked
                    /\ compile_calls' = compile_calls
                    /\ shader_source_to_compiled' = shader_source_to_compiled
                    /\ shader_storage' = shader_storage
      ]_vars

\* the pipeline's second variant with the define, for the other topology, has
\* just been compiled with both stages found in the shader cache
C19_Witness ==
    /\ pc = "pass"
    /\ plog # <<>>
    /\ LET r == plog[Len(plog)]
           entries == pipeline_source_to_compiled[r.pipeline]
       IN  /\ ~r.hit
           /\ DefsOf(r.spec) = {"A"}
           /\ \E j \in 1..Len(entries) :
                /\ TopologyOnly(entries[j].spec, r.spec)
                /\ entries[j].handle # r.handle
                /\ pipeline_storage[entries[j].handle].vertex =
                        pipeline_storage[r.handle].vertex
                /\ pipeline_storage[entries[j].handle].fragment =
                        pipeline_storage[r.handle].fragment
                /\ pipeline_storage[r.handle].fragment # NoHandle
           /\ Len(slog) >= 2
           /\ ~slog[Len(slog)].invoked
           /\ ~slog[Len(slog) - 1].invoked
           /\ slog[Len(slog)].handle = pipeline_storage[r.handle].fragment
           /\ slog[Len(slog) - 1].handle = pipeline_storage[r.handle].vertex

\* how many times an id occurs in the lists of an assignment table
Occurrences(table, id) ==
    Cardinality(UNION {{<<h, i>> : i \in {i \in 1..Len(table[h]) : table[h][i] = id}} :
                        h \in DOMAIN table})

\* C20: when a pass completes, every key of the assignment table is the
\* handle of an entry of the pipeline cache and no source handle, no
\* assignment list is empty, the id of a renderable that is not instanced
\* occurs in the table as many times as its pipeline list is long, and the id
\* of an instanced renderable does not occur.
C20_TableConsistent ==
    PassComplete =>
        /\ DOMAIN assignments \subseteq CompiledPipelineHandles
        /\ DOMAIN assignments \cap DOMAIN pipeline_source_to_compiled = {}
        /\ \A h \in DOMAIN assignments :
            /\ ~IsSourcePipeline(h)
            /\ assignments[h] # <<>>
        /\ \A e \in DOMAIN world :
            Occurrences(assignments, world[e].id) =
                IF world[e].is_instanced THEN 0 ELSE Len(world[e].pipelines)

\* the second pass is complete with one renderable instanced and the other,
\* which lists one pipeline twice, twice in that pipeline's list
C20_Witness ==
    /\ PassComplete
    /\ frame = 2
    /\ \E e1, e2 \in DOMAIN world :
        /\ world[e1].is_instanced
        /\ world[e1].id \in discarded
        /\ ~world[e2].is_instanced
        /\ Len(world[e2].pipelines) = 3
        /\ Occurrences(assignments, world[e2].id) = 3
        /\ \E h \in DOMAIN assignments : assignments[h] = <<world[e2].id, world[e2].id>>

====
